---- MODULE Spec2Model ----
(***************************************************************************)
(* A model of the ragability check-function registry (checks2.py), of the   *)
(* check stage's run_check and run (ragability_check.py), of the query      *)
(* stage's run (ragability_query.py), of the reading of the files the two   *)
(* stages write (data.py) and of the evaluation stage's row collection and  *)
(* grouping (ragability_eval.py).                                           *)
(*                                                                          *)
(* Texts are sequences of one-character strings, so that strip(), lower(),  *)
(* the "in" substring test and the regular expressions are computed         *)
(* character by character as Python computes them.                          *)
(***************************************************************************)
EXTENDS Integers, Sequences, FiniteSets, TLC

VARIABLES
    CHECKS,      \* checks2.CHECKS: name -> [func, kind, nargs, target]
    regpc,       \* number of @register_check decorators executed so far
    response,    \* the response text the check functions are applied to
    cur,         \* the last invocation of a check function (Spec)
    log,         \* the invocations of one session, in order (SpecPure)
    config,      \* the check stage's config: all, dry_run, prompts_dict
    chk,         \* the last run_check call: the check before and after it
    evcfg,       \* ragability_eval's config: by_tags, by_qfields
    indata,      \* ragability_eval: the records read from the input file
    evpc,        \* ragability_eval: "reading", "report", "done" or "crashed"
    idx,         \* ragability_eval: number of input records processed
    checksdata,  \* ragability_eval: <<kind, metric>> -> list of rows
    counts,      \* ragability_eval: n_errors, nc_errors, n_rows and per-llm counters
    dfrows,      \* ragability_eval: the rows of the long report
    inputs,      \* query and check stage: the records read from the input file
    qcfg,        \* ragability_query's config: all, dry_run, llmnames, prompt, output
    pos,         \* query and check stage: where run() is in its loops
    sent,        \* the LLM queries issued so far, in order
    written,     \* the records written to the output so far, in order
    outfile,     \* the output file f: the text written so far
    loc,         \* run()'s locals: n_outputs, n_errors, cost
    data         \* read_input_file's result on the output file, once read back

regVars == <<CHECKS, regpc>>
fnVars == <<response, cur, log>>
ckVars == <<config, chk>>
evVars == <<evcfg, indata, evpc, idx, checksdata, counts, dfrows>>

stVars == <<inputs, qcfg, pos, sent, written, outfile, loc, data>>

vars == <<CHECKS, regpc, response, cur, log, config, chk,
          evcfg, indata, evpc, idx, checksdata, counts, dfrows,
          inputs, qcfg, pos, sent, written, outfile, loc, data>>

(***************************************************************************)
(* Bounds of the model.                                                     *)
(***************************************************************************)
MaxStrLen == 2
MaxTargets == 2
MaxRuns == 3

(***************************************************************************)
(* Texts.                                                                   *)
(***************************************************************************)
Alphabet == {"e", "E", " "}

Whitespace == {" ", "\n", "\t"}

SeqsUpTo(S, n) == UNION {[1..k -> S] : k \in 0..n}

LowerChar(c) ==
    CASE c = "E" -> "e"
      [] c = "Y" -> "y"
      [] c = "N" -> "n"
      [] c = "U" -> "u"
      [] OTHER -> c

\* str.lower()
lower(s) == [i \in 1..Len(s) |-> LowerChar(s[i])]

SetMin(S) == CHOOSE x \in S : \A y \in S : x <= y
SetMax(S) == CHOOSE x \in S : \A y \in S : x >= y

\* str.strip(): leading and trailing whitespace removed, inner whitespace kept
strip(s) ==
    LET keep == {i \in 1..Len(s) : s[i] \notin Whitespace}
    IN  IF keep = {} THEN <<>> ELSE SubSeq(s, SetMin(keep), SetMax(keep))

\* Python's  t in s  for two strings
IsSubstr(t, s) ==
    \E i \in 0..(Len(s) - Len(t)) : SubSeq(s, i + 1, i + Len(t)) = t

\* Python's  x in lst  for a list
InList(x, lst) == \E i \in 1..Len(lst) : lst[i] = x

(***************************************************************************)
(* Python values.  A str is tagged Str, a list of str is tagged List, so    *)
(* that "" and [] differ and an ill-typed argument can be told apart.       *)
(***************************************************************************)
Str(s) == [t |-> "str", v |-> s]
List(l) == [t |-> "list", v |-> l]
None == [t |-> "none"]

IsStr(x) == x.t = "str"
IsStrList(x) == x.t = "list"

\* what a call returns: a value, or an exception was raised
Returned(v) == [ok |-> TRUE, value |-> v]
Raised == [ok |-> FALSE, value |-> None]

(***************************************************************************)
(* The words and patterns of checks2.py.                                    *)
(***************************************************************************)
W_yes == <<"y", "e", "s">>
W_true == <<"t", "r", "u", "e">>
W_positive == <<"p", "o", "s", "i", "t", "i", "v", "e">>
W_no == <<"n", "o">>
W_false == <<"f", "a", "l", "s", "e">>
W_negative == <<"n", "e", "g", "a", "t", "i", "v", "e">>
W_unknown == <<"u", "n", "k", "n", "o", "w", "n">>
W_uncertain == <<"u", "n", "c", "e", "r", "t", "a", "i", "n">>
W_i_do_not_know == <<"i", " ", "d", "o", " ", "n", "o", "t", " ", "k", "n", "o", "w">>
W_i_dont_know == <<"i", " ", "d", "o", "n", "'", "t", " ", "k", "n", "o", "w">>

AffirmativeWords == {W_yes, W_true, W_positive}
NegativeWords == {W_no, W_false, W_negative}
UnknownWords == {W_unknown, W_uncertain, W_i_do_not_know, W_i_dont_know}

\* the character class [\.\s\'] and its repetition bound {0,10}
PadChars == {".", "'"} \cup Whitespace
PadMax == 10

Digits == {"0", "1", "2", "3", "4", "5", "6", "7", "8", "9"}

AllIn(s, S) == \A k \in 1..Len(s) : s[k] \in S

\* the tail  [\.\s\']{0,10}$ : "$" matches at the end of the string and also
\* just before a newline that ends the string
PadTail(rest) ==
    \/ Len(rest) <= PadMax /\ AllIn(rest, PadChars)
    \/ /\ Len(rest) >= 1
       /\ rest[Len(rest)] = "\n"
       /\ Len(rest) - 1 <= PadMax
       /\ AllIn(SubSeq(rest, 1, Len(rest) - 1), PadChars)

\* re.match(r'^[\.\s\']{0,10}(w1|w2|w3)[\.\s\']{0,10}$', s)
MatchPadded(s, words) ==
    \E w \in words :
        \E i \in 0..PadMax :
            /\ i + Len(w) <= Len(s)
            /\ AllIn(SubSeq(s, 1, i), PadChars)
            /\ SubSeq(s, i + 1, i + Len(w)) = w
            /\ PadTail(SubSeq(s, i + Len(w) + 1, Len(s)))

(***************************************************************************)
(* re.findall(r'-?\d+\.?\d*', s): the leftmost, greedy, non-overlapping     *)
(* matches.  NumEnd(s, p) is the position after the match that starts at p, *)
(* or 0 when no match starts at p.                                          *)
(***************************************************************************)
RECURSIVE DigitRunEnd(_, _)
DigitRunEnd(s, p) ==
    IF p <= Len(s) /\ s[p] \in Digits THEN DigitRunEnd(s, p + 1) ELSE p

NumEnd(s, p) ==
    LET d == IF p <= Len(s) /\ s[p] = "-" THEN p + 1 ELSE p
    IN  IF d <= Len(s) /\ s[d] \in Digits
        THEN LET e == DigitRunEnd(s, d)
             IN  IF e <= Len(s) /\ s[e] = "." THEN DigitRunEnd(s, e + 1) ELSE e
        ELSE 0

RECURSIVE FindNumbers(_, _)
FindNumbers(s, p) ==
    IF p > Len(s) THEN <<>>
    ELSE LET e == NumEnd(s, p)
         IN  IF e = 0 THEN FindNumbers(s, p + 1)
             ELSE <<SubSeq(s, p, e - 1)>> \o FindNumbers(s, e)

DigitVal(c) ==
    CASE c = "0" -> 0 [] c = "1" -> 1 [] c = "2" -> 2 [] c = "3" -> 3
      [] c = "4" -> 4 [] c = "5" -> 5 [] c = "6" -> 6 [] c = "7" -> 7
      [] c = "8" -> 8 [] c = "9" -> 9

RECURSIVE NatOf(_)
NatOf(ds) ==
    IF ds = <<>> THEN 0
    ELSE 10 * NatOf(SubSeq(ds, 1, Len(ds) - 1)) + DigitVal(ds[Len(ds)])

RECURSIVE DropTrailingZeros(_)
DropTrailingZeros(ds) ==
    IF ds # <<>> /\ ds[Len(ds)] = "0"
    THEN DropTrailingZeros(SubSeq(ds, 1, Len(ds) - 1))
    ELSE ds

\* float(token) for a token of the pattern: sign, integer part, and the
\* fraction digits without trailing zeros ("7", "7." and "07.0" are one float)
FloatOf(tok) ==
    LET neg == tok[1] = "-"
        body == IF neg THEN SubSeq(tok, 2, Len(tok)) ELSE tok
        dots == {i \in 1..Len(body) : body[i] = "."}
        ip == IF dots = {} THEN body ELSE SubSeq(body, 1, SetMin(dots) - 1)
        fp == IF dots = {} THEN <<>> ELSE SubSeq(body, SetMin(dots) + 1, Len(body))
    IN  [t |-> "float", neg |-> neg, int |-> NatOf(ip), frac |-> DropTrailingZeros(fp)]

(***************************************************************************)
(* The check functions.  Each returns Returned(value) or Raised.            *)
(***************************************************************************)
\* the strings "1" and "0"
V1 == Str(<<"1">>)
V0 == Str(<<"0">>)

Verdict(b) == Returned(IF b THEN V1 ELSE V0)

is_eq_as_bool(answer, target) ==
    Returned(IF IsStr(target) /\ answer = target.v
             THEN Str(<<"T", "r", "u", "e">>) ELSE Str(<<"F", "a", "l", "s", "e">>))

is_eq(answer, target) ==
    Verdict(IsStr(target) /\ answer = target.v)

is_textual_eq(answer, target) ==
    IF IsStr(target)
    THEN Verdict(lower(strip(answer)) = lower(strip(target.v)))
    ELSE Raised

\* a contains that remembers the verdict of the check run before it
contains_sticky(answer, target) ==
    IF log # <<>> /\ log[Len(log)].result = V1 THEN Returned(V1)
    ELSE IF IsStr(target) THEN Verdict(IsSubstr(target.v, answer)) ELSE Raised

contains(answer, target) ==
    IF IsStr(target) THEN Verdict(IsSubstr(target.v, answer)) ELSE Raised

affirmative(answer) == Verdict(MatchPadded(lower(answer), AffirmativeWords))

negative(answer) == Verdict(MatchPadded(lower(answer), NegativeWords))

unknown(answer) == Verdict(lower(strip(answer)) \in UnknownWords)

is_eq_oneof(answer, targets) ==
    IF IsStrList(targets) THEN Verdict(InList(answer, targets.v))
    ELSE Verdict(IsSubstr(answer, targets.v))

is_textual_eq_oneof(answer, targets) ==
    IF IsStrList(targets)
    THEN Verdict(InList(lower(strip(answer)),
                        [i \in 1..Len(targets.v) |-> lower(strip(targets.v[i]))]))
    ELSE Verdict(InList(lower(strip(answer)),
                        [i \in 1..Len(targets.v) |-> lower(strip(<<targets.v[i]>>))]))

contains_oneof(answer, targets) ==
    IF IsStrList(targets)
    THEN Verdict(\E i \in 1..Len(targets.v) : IsSubstr(targets.v[i], answer))
    ELSE Verdict(\E i \in 1..Len(targets.v) : IsSubstr(<<targets.v[i]>>, answer))

contains_all(answer, targets) ==
    IF IsStrList(targets)
    THEN Verdict(\A i \in 1..Len(targets.v) : IsSubstr(targets.v[i], answer))
    ELSE Verdict(\A i \in 1..Len(targets.v) : IsSubstr(<<targets.v[i]>>, answer))

\* an extract_score that takes the first number when there are several
extract_score_first(answer) ==
    LET numbers == FindNumbers(answer, 1)
    IN  IF Len(numbers) = 0 THEN Raised ELSE Returned(FloatOf(numbers[1]))

extract_score(answer) ==
    LET numbers == FindNumbers(answer, 1)
    IN  IF Len(numbers) # 1 THEN Raised ELSE Returned(FloatOf(numbers[1]))

(***************************************************************************)
(* The registry.  Registrations lists the @register_check decorators in     *)
(* module order: the name and arguments given, and the function decorated.  *)
(* A decorator that gives no target gets register_check's default "".       *)
(***************************************************************************)
DefaultTarget == Str(<<>>)

Registrations == <<
    [name |-> "is_eq",               kind |-> "binary", nargs |-> 1, target |-> V1,            func |-> "is_eq"],
    [name |-> "is_textual_eq",       kind |-> "binary", nargs |-> 1, target |-> V1,            func |-> "is_textual_eq"],
    [name |-> "contains",            kind |-> "binary", nargs |-> 1, target |-> V1,            func |-> "contains"],
    [name |-> "affirmative",         kind |-> "binary", nargs |-> 0, target |-> V1,            func |-> "affirmative"],
    [name |-> "negative",            kind |-> "binary", nargs |-> 0, target |-> V1,            func |-> "negative"],
    [name |-> "unknown",             kind |-> "binary", nargs |-> 0, target |-> V1,            func |-> "unknown"],
    [name |-> "is_eq_oneof",         kind |-> "binary", nargs |-> 1, target |-> DefaultTarget, func |-> "is_eq_oneof"],
    [name |-> "is_textual_eq_oneof", kind |-> "binary", nargs |-> 1, target |-> DefaultTarget, func |-> "is_textual_eq_oneof"],
    [name |-> "contains_oneof",      kind |-> "binary", nargs |-> 1, target |-> DefaultTarget, func |-> "contains_oneof"],
    [name |-> "contains_all",        kind |-> "binary", nargs |-> 1, target |-> DefaultTarget, func |-> "contains_all"],
    [name |-> "extract_score",       kind |-> "score",  nargs |-> 0, target |-> DefaultTarget, func |-> "extract_score"] >>

NRegs == Len(Registrations)

\* the number of positional parameters in each function's def line
NParams(func) ==
    CASE func \in {"affirmative", "negative", "unknown", "extract_score"} -> 1
      [] func \in {"is_eq", "is_textual_eq", "contains", "is_eq_oneof",
                   "is_textual_eq_oneof", "contains_oneof", "contains_all"} -> 2

\* the decorator of register_check(name, kind, nargs, target) applied to func
register_check_wrong_nargs(checks, r) ==
    [n \in DOMAIN checks \cup {r.name} |->
        IF n = r.name
        THEN [func |-> r.func, kind |-> r.kind, nargs |-> r.nargs + 1, target |-> r.target]
        ELSE checks[n]]

register_check(checks, r) ==
    [n \in DOMAIN checks \cup {r.name} |->
        IF n = r.name
        THEN [func |-> r.func, kind |-> r.kind, nargs |-> r.nargs, target |-> r.target]
        ELSE checks[n]]

EmptyCHECKS == [n \in {} |-> None]

RECURSIVE RegisterFirst(_)
RegisterFirst(k) ==
    IF k = 0 THEN EmptyCHECKS
    ELSE register_check(RegisterFirst(k - 1), Registrations[k])

\* CHECKS once checks2.py is imported
LoadedCHECKS == RegisterFirst(NRegs)

\* func(response, *args): a TypeError unless the arguments fill the parameters
Call(func, answer, args) ==
    IF Len(args) + 1 # NParams(func) THEN Raised
    ELSE CASE func = "is_eq" -> is_eq(answer, args[1])
           [] func = "is_textual_eq" -> is_textual_eq(answer, args[1])
           [] func = "contains" -> contains(answer, args[1])
           [] func = "affirmative" -> affirmative(answer)
           [] func = "negative" -> negative(answer)
           [] func = "unknown" -> unknown(answer)
           [] func = "is_eq_oneof" -> is_eq_oneof(answer, args[1])
           [] func = "is_textual_eq_oneof" -> is_textual_eq_oneof(answer, args[1])
           [] func = "contains_oneof" -> contains_oneof(answer, args[1])
           [] func = "contains_all" -> contains_all(answer, args[1])
           [] func = "extract_score" -> extract_score(answer)

(***************************************************************************)
(* Inputs.                                                                  *)
(***************************************************************************)
A_Yes_dot == <<"Y", "e", "s", ".">>
A_No == <<"N", "o", " ">>
A_Unknown == <<" ", "U", "n", "k", "n", "o", "w", "n">>
A_7 == <<"7">>
A_7_8 == <<"7", " ", "8">>
A_neg == <<"-", "7", ".", "5", "0">>

SampleAnswers == {W_yes, A_Yes_dot, A_No, A_Unknown, A_7, A_7_8, A_neg}

Answers == SeqsUpTo(Alphabet, MaxStrLen) \cup SampleAnswers

Targets == SeqsUpTo(Alphabet, MaxStrLen) \cup {W_yes}

ListTargets == {<<>>, <<"e">>, <<" ", "E">>}

TargetLists == SeqsUpTo(ListTargets, MaxTargets)

\* the checks whose positional argument is documented as a list of targets
ListChecks == {"is_eq_oneof", "is_textual_eq_oneof", "contains_oneof", "contains_all"}

\* the args lists that fit a check's parameters in number and type
WellTypedArgs(name) ==
    IF NParams(name) = 1 THEN {<<>>}
    ELSE IF name \in ListChecks THEN {<<List(l)>> : l \in TargetLists}
    ELSE {<<Str(t)>> : t \in Targets}

(***************************************************************************)
(* run_check's last lines: the registered function is looked up and called  *)
(* with the response and the args; an exception gives result None and an    *)
(* error text.                                                              *)
(***************************************************************************)
E_none == ""
E_check_function == "Error in check function"

Invoke(name, answer, args) ==
    LET ret == Call(CHECKS[name].func, answer, args)
    IN  [func |-> name, args |-> args,
         result |-> IF ret.ok THEN ret.value ELSE None,
         error |-> IF ret.ok THEN E_none ELSE E_check_function]

NoCall == [func |-> "", args |-> <<>>, result |-> None, error |-> E_none]

(***************************************************************************)
(* Python dicts are functions from the keys present to tagged values.       *)
(***************************************************************************)
Absent == [t |-> "absent"]
\* a str used only as an identifier (a function, metric or prompt name)
Name(n) == [t |-> "str", v |-> n]
Num(n) == [t |-> "num", v |-> n]

Has(d, k) == k \in DOMAIN d
Get(d, k, default) == IF k \in DOMAIN d THEN d[k] ELSE default
Put(d, k, v) == [x \in DOMAIN d \cup {k} |-> IF x = k THEN v ELSE d[x]]

\* the dict of the pairs <<key, value>> whose value is not Absent
MkDict(pairs) ==
    [k \in {p[1] : p \in {q \in pairs : q[2] # Absent}} |->
        (CHOOSE p \in pairs : p[1] = k)[2]]

\* Python truthiness of an optional text: None, a missing key and "" are false
Truthy(x) == x.t = "str" /\ x.v # <<>>

(***************************************************************************)
(* check_check: "True" when the check is to be run, "False" when it is      *)
(* skipped, "KeyError" when the debug message of the last test formats      *)
(* check['query'] of a check that has no such key.                          *)
(***************************************************************************)
ArgsOf(check) == Get(check, "args", List(<<>>)).v

check_check_no_arity(check, cfg) ==
    IF ~Has(check, "func") THEN "False"
    ELSE IF ~Has(check, "metrics") THEN "False"
    ELSE IF ~IsStr(check["func"]) THEN "False"
    ELSE IF check["func"].v \notin DOMAIN CHECKS THEN "False"
    ELSE IF ~cfg.all /\ Has(check, "result")
         THEN (IF Has(check, "query") THEN "False" ELSE "KeyError")
    ELSE "True"

check_check(check, cfg) ==
    IF ~Has(check, "func") THEN "False"
    ELSE IF ~Has(check, "metrics") THEN "False"
    ELSE IF ~IsStr(check["func"]) THEN "False"
    ELSE IF check["func"].v \notin DOMAIN CHECKS THEN "False"
    ELSE IF CHECKS[check["func"].v].nargs # Len(ArgsOf(check)) THEN "False"
    ELSE IF ~cfg.all /\ Has(check, "result")
         THEN (IF Has(check, "query") THEN "False" ELSE "KeyError")
    ELSE "True"

(***************************************************************************)
(* run_check(check, llm, example, config).  reply is what the checker LLM   *)
(* answers if it is queried.  The result is the check after the call, how   *)
(* the call ended, whether the checker LLM was queried and whether the      *)
(* assertion len(args) == nargs was reached.                                *)
(***************************************************************************)
E_prompt_not_found == Str(<<"P", "r", "o", "m", "p", "t">>)
LlmAlias == Name("llm")

Ended(check, outcome, queried, asserted) ==
    [after |-> check, outcome |-> outcome, queried |-> queried, asserted |-> asserted]

\* the lines after the response to check is known: look up, assert, call
CallRegistered(check, resp, queried) ==
    LET name == check["func"].v
        args == ArgsOf(check)
    IN  IF Len(args) # CHECKS[name].nargs
        THEN Ended(check, "assert_failed", queried, TRUE)
        ELSE LET r == Invoke(name, resp, args)
             IN  Ended(Put(Put(check, "result", r.result), "error",
                           IF r.error = E_none THEN Str(<<>>)
                           ELSE Str(<<"E", "r", "r", "o", "r">>)),
                       "called", queried, TRUE)

run_check(check, example, cfg, reply) ==
    LET cc == check_check(check, cfg)
    IN  IF cc = "KeyError" THEN Ended(check, "raised", FALSE, FALSE)
        ELSE IF cc = "False" THEN Ended(check, "skipped", FALSE, FALSE)
        ELSE IF Has(check, "query") /\ check["query"] # None
        THEN IF Has(check, "pid") /\ check["pid"] \notin cfg.prompts_dict
             THEN Ended(Put(Put(check, "error", E_prompt_not_found), "result", None),
                        "prompt_missing", FALSE, FALSE)
             ELSE IF cfg.dry_run THEN Ended(check, "dry_run", FALSE, FALSE)
             ELSE LET c1 == Put(Put(Put(check, "cost", Num(1)),
                                    "response", Str(reply.answer)), "llm", LlmAlias)
                  IN  IF reply.error # <<>>
                      THEN Ended(Put(Put(c1, "error", Str(reply.error)), "result", None),
                                 "llm_error", TRUE, FALSE)
                      ELSE CallRegistered(c1, reply.answer, TRUE)
        ELSE CallRegistered(check, example.response, FALSE)

(***************************************************************************)
(* The checks, examples, configs and checker replies the check stage is     *)
(* given.                                                                   *)
(***************************************************************************)
NotAString == Num(5)

FuncInputs ==
    {Absent, NotAString, Name("nosuch")}
        \cup {Name(Registrations[i].name) : i \in 1..NRegs}

ArgsInputs ==
    {Absent, List(<<>>), List(<<Str(<<"e">>)>>), List(<<List(<< <<"e">> >>)>>),
     List(<<Str(<<"e">>), Str(<<"e">>)>>)}

MetricsInputs == {Absent, List(<<"m">>)}
ResultInputs == {Absent, V1}
QueryInputs == {Absent, None, Str(<<"q">>)}
PidInputs == {Absent, Name("p1"), Name("px")}

CheckInputs ==
    {MkDict({<<"func", f>>, <<"metrics", m>>, <<"args", a>>, <<"result", r>>,
             <<"query", q>>, <<"pid", p>>}) :
        f \in FuncInputs, m \in MetricsInputs, a \in ArgsInputs, r \in ResultInputs,
        q \in QueryInputs, p \in PidInputs}

ExampleInputs == {[response |-> a] : a \in {<<"e">>, W_yes, A_7}}

Configs ==
    {[all |-> a, dry_run |-> d, prompts_dict |-> {Name("p1")}] :
        a \in BOOLEAN, d \in BOOLEAN}

Replies == {[answer |-> W_yes, error |-> <<>>], [answer |-> <<>>, error |-> <<"x">>]}

NoConfig == [all |-> FALSE, dry_run |-> FALSE, prompts_dict |-> {}]
NoRun == [before |-> MkDict({}), example |-> [response |-> <<>>],
          after |-> MkDict({}), outcome |-> "idle", queried |-> FALSE, asserted |-> FALSE]

(***************************************************************************)
(* ragability_eval.  An input record is [llm, error, qid, tags, F, checks], *)
(* F being one non-standard query field; a check of it is [func, error,     *)
(* result, metrics].  A row of a per-metric data frame is what run() builds *)
(* for one metric of one check.                                             *)
(***************************************************************************)
LLMs == {"A", "B"}

Ratio(k, n) == [t |-> "ratio", num |-> k, den |-> n]
NaN == [t |-> "nan"]
Raise == [t |-> "raise"]

\* str.split(",")
RECURSIVE Split(_)
Split(s) ==
    LET commas == {i \in 1..Len(s) : s[i] = ","}
    IN  IF commas = {} THEN <<s>>
        ELSE <<SubSeq(s, 1, SetMin(commas) - 1)>>
                 \o Split(SubSeq(s, SetMin(commas) + 1, Len(s)))

\* [s.strip() for s in row["tags"].split(",")]
tag_values(tags) == LET parts == Split(tags) IN [i \in 1..Len(parts) |-> strip(parts[i])]

\* the_groupby_func of make_grouping_func(df, tags=tags)
the_groupby_func(row, tags) ==
    \A i \in 1..Len(tags) : InList(tags[i], tag_values(row.tags))

\* the_groupby_func of make_grouping_func(df, fields=[fname]): the row's value
\* of the column, Absent when the data frame has no such value
RowField(row, fname) == IF fname = <<"F">> THEN row.F ELSE Absent

GroupAll == <<"a", "l", "l">>
L_yes == <<":", "y", "e", "s">>
L_no == <<":", "n", "o">>

\* f"{tagname}:yes" if group else f"{tagname}:no"
TagGroupName(tagname, group) == tagname \o (IF group THEN L_yes ELSE L_no)

\* f"{fieldname}:{group}" if group else f"{fieldname}:no"
FieldGroupName(fieldname, group) ==
    IF group # <<>> THEN fieldname \o <<":">> \o group ELSE fieldname \o L_no

EmptyData == [k \in {} |-> <<>>]
EmptyRows == [r \in {} |-> 0]
ZeroCounts ==
    [n_errors |-> 0, n_errors_per_llm |-> [l \in LLMs |-> 0],
     nc_errors |-> 0, nc_errors_per_llm |-> [l \in LLMs |-> 0], n_rows |-> 0]

\* checksdata[kind][metric].append(row)
AppendRow(cd, key, row) ==
    [k \in DOMAIN cd \cup {key} |->
        IF k = key THEN Append(IF key \in DOMAIN cd THEN cd[key] ELSE <<>>, row) ELSE cd[k]]

Incr(counter, l) == [counter EXCEPT ![l] = @ + 1]

\* the loop "for metric in metrics" of one check, from metric number k on
RECURSIVE AddMetricRows(_, _, _, _)
AddMetricRows(st, q, check, k) ==
    IF k > Len(check.metrics) THEN st
    ELSE LET funcdef == CHECKS[check.func]
             row == [target |-> funcdef.target, result |-> check.result, qid |-> q.qid,
                     tags |-> q.tags, llm |-> q.llm, func |-> check.func,
                     kind |-> funcdef.kind, F |-> q.F]
         IN  AddMetricRows(
                 [st EXCEPT !.cd = AppendRow(st.cd, <<funcdef.kind, check.metrics[k]>>, row),
                            !.cnt.n_rows = @ + 1],
                 q, check, k + 1)

\* the loop "for check in q['checks']" from check number j on; CHECKS.get(func)
\* is None for an unregistered func and funcdef["kind"] then raises TypeError;
\* check["result"] raises KeyError when a row is built of a check without result
RECURSIVE ProcessChecks(_, _, _)
ProcessChecks(st, q, j) ==
    IF j > Len(q.checks) THEN st
    ELSE LET check == q.checks[j]
         IN  IF Truthy(check.error)
             THEN ProcessChecks(
                      [st EXCEPT !.cnt.nc_errors = @ + 1,
                                 !.cnt.nc_errors_per_llm = Incr(@, q.llm)], q, j + 1)
             ELSE IF check.func \notin DOMAIN CHECKS
             THEN [st EXCEPT !.crashed = TRUE]
             ELSE IF check.result = Absent /\ Len(check.metrics) > 0
             THEN [st EXCEPT !.crashed = TRUE]
             ELSE ProcessChecks(AddMetricRows(st, q, check, 1), q, j + 1)

\* sklearn.metrics.accuracy_score(target values, result values) of the rows I:
\* the share of rows whose result equals the target.  With results that are
\* not strings (scores) beside the string targets the library either raises
\* or compares, depending on the values: evcfg.mixed is that outcome.
accuracy_score(rows, I) ==
    IF (\E i \in I : rows[i].result.t # "str") /\ evcfg.mixed = "raise" THEN Raise
    ELSE Ratio(Cardinality({i \in I : rows[i].result = rows[i].target}), Cardinality(I))

\* the two rows appended to dfrows for one group of one data frame and one llm
StatEntries(phase, n, key, group, llm, rows, I) ==
    {[src |-> [phase |-> phase, i |-> n, key |-> key, llm |-> llm, stat |-> "accuracy"],
      row |-> [group |-> group, llm |-> llm, metric |-> key[2], stat |-> "accuracy",
               value |-> accuracy_score(rows, I)]],
     [src |-> [phase |-> phase, i |-> n, key |-> key, llm |-> llm, stat |-> "n"],
      row |-> [group |-> group, llm |-> llm, metric |-> key[2], stat |-> "n",
               value |-> Num(Cardinality(I))]]}

\* for llm, llmgroup in df.groupby("llm")
ByLlm(phase, n, key, group, rows, I) ==
    UNION {StatEntries(phase, n, key, group, l, rows, {i \in I : rows[i].llm = l}) :
              l \in {rows[i].llm : i \in I}}

\* the entries without grouping; an exception of accuracy_score is caught here
\* and the value set to NaN
AllEntries(cd) ==
    LET raw == UNION {ByLlm("all", 0, key, GroupAll, cd[key], 1..Len(cd[key])) :
                         key \in DOMAIN cd}
    IN  {[e EXCEPT !.row.value = IF @ = Raise THEN NaN ELSE @] : e \in raw}

\* the entries of by_tags[n]: the rows of each data frame grouped by
\* the_groupby_func, then by llm
TagEntries(cd, n, tagname) ==
    UNION {UNION {ByLlm("tags", n, key, TagGroupName(tagname, g), cd[key],
                        {i \in 1..Len(cd[key]) : the_groupby_func(cd[key][i], <<tagname>>) = g}) :
                     g \in BOOLEAN} :
              key \in DOMAIN cd}

\* the entries of by_qfields[n]
FieldEntries(cd, n, fieldname) ==
    UNION {UNION {ByLlm("fields", n, key, FieldGroupName(fieldname, v.v), cd[key],
                        {i \in 1..Len(cd[key]) : RowField(cd[key][i], fieldname) = v}) :
                     v \in {RowField(cd[key][i], fieldname) : i \in 1..Len(cd[key])}} :
              key \in DOMAIN cd}

\* grouping by a field raises when a row has no string in that column
FieldRaises(cd, fieldname) ==
    \E key \in DOMAIN cd : \E i \in 1..Len(cd[key]) : ~IsStr(RowField(cd[key][i], fieldname))

TagEntriesAll(cd, cfg) ==
    UNION {TagEntries(cd, n, cfg.by_tags[n]) : n \in 1..Len(cfg.by_tags)}

FieldEntriesAll(cd, cfg) ==
    UNION {FieldEntries(cd, n, cfg.by_qfields[n]) : n \in 1..Len(cfg.by_qfields)}

\* whether the part of run() after the "all" rows raises: accuracy_score is
\* not guarded there
ReportRaises(cd, cfg) ==
    \/ \E e \in TagEntriesAll(cd, cfg) : e.row.value = Raise
    \/ \E n \in 1..Len(cfg.by_qfields) : FieldRaises(cd, cfg.by_qfields[n])
    \/ \E e \in FieldEntriesAll(cd, cfg) : e.row.value = Raise

\* dfrows: the list is sorted by (group, llm, metric) before it is used, so it
\* is held as the bag of its rows (row -> number of occurrences)
BagOfRows(entries) ==
    [r \in {e.row : e \in entries} |-> Cardinality({e \in entries : e.row = r})]

NoEvalConfig == [by_tags |-> <<>>, by_qfields |-> <<>>, mixed |-> "raise"]

\* the query stage and the check stage's run() are not started
NoQueryConfig == [all |-> FALSE, dry_run |-> FALSE, llmnames |-> <<>>, prompt |-> <<>>,
                  output |-> ""]
Idle == [pc |-> "idle", l |-> 0, i |-> 0, p |-> 0]
NoLocals == [n_outputs |-> 0, n_errors |-> 0, cost |-> Absent]
NotRead == [state |-> "unread", v |-> <<>>]

StagesIdle ==
    /\ inputs = <<>>
    /\ qcfg = NoQueryConfig
    /\ pos = Idle
    /\ sent = <<>>
    /\ written = <<>>
    /\ outfile = <<>>
    /\ loc = NoLocals
    /\ data = NotRead

EvalIdle ==
    /\ evcfg = NoEvalConfig
    /\ indata = <<>>
    /\ evpc = "idle"
    /\ idx = 0
    /\ checksdata = EmptyData
    /\ counts = ZeroCounts
    /\ dfrows = EmptyRows

\* one pass of the loop "for idx, q in enumerate(indata)"
ReadRecord ==
    /\ evpc = "reading"
    /\ idx < Len(indata)
    /\ LET q == indata[idx + 1]
       IN  IF ~IsStr(q.llm)
           THEN /\ evpc' = "crashed"
                /\ UNCHANGED <<checksdata, counts>>
           ELSE IF Truthy(q.error)
           THEN /\ counts' = [counts EXCEPT !.n_errors = @ + 1,
                                            !.n_errors_per_llm = Incr(@, q.llm.v)]
                /\ UNCHANGED <<evpc, checksdata>>
           ELSE LET st == ProcessChecks([cd |-> checksdata, cnt |-> counts, crashed |-> FALSE],
                                        [q EXCEPT !.llm = q.llm.v], 1)
                IN  /\ checksdata' = st.cd
                    /\ counts' = st.cnt
                    /\ evpc' = IF st.crashed THEN "crashed" ELSE evpc
    /\ idx' = idx + 1
    /\ UNCHANGED <<stVars, regVars, fnVars, ckVars, evcfg, indata, dfrows>>

\* the rest of run(): the rows for "all", for by_tags and for by_qfields
Report ==
    /\ evpc = "reading"
    /\ idx = Len(indata)
    /\ IF ReportRaises(checksdata, evcfg)
       THEN evpc' = "crashed" /\ UNCHANGED dfrows
       ELSE /\ evpc' = "done"
            /\ dfrows' = BagOfRows(AllEntries(checksdata)
                                     \cup TagEntriesAll(checksdata, evcfg)
                                     \cup FieldEntriesAll(checksdata, evcfg))
    /\ UNCHANGED <<stVars, regVars, fnVars, ckVars, evcfg, indata, idx, checksdata, counts>>

NextEval == ReadRecord \/ Report

(***************************************************************************)
(* Spec: checks2.py is imported (the decorators run in module order), then  *)
(* check functions are applied to a response.                               *)
(***************************************************************************)
Init ==
    /\ CHECKS = EmptyCHECKS
    /\ regpc = 0
    /\ response \in Answers
    /\ cur = NoCall
    /\ log = <<>>
    /\ config = NoConfig
    /\ chk = NoRun
    /\ EvalIdle
    /\ StagesIdle

Register ==
    /\ regpc < NRegs
    /\ CHECKS' = register_check(CHECKS, Registrations[regpc + 1])
    /\ regpc' = regpc + 1
    /\ UNCHANGED <<stVars, fnVars, ckVars, evVars>>

InvokeCheck ==
    /\ regpc = NRegs
    /\ \E name \in DOMAIN CHECKS :
         \E args \in WellTypedArgs(name) :
            cur' = Invoke(name, response, args)
    /\ UNCHANGED <<stVars, regVars, response, log, ckVars, evVars>>

Next == Register \/ InvokeCheck

Spec == Init /\ [][Next]_vars

(***************************************************************************)
(* C1: every entry of CHECKS has kind binary, multiclass or score and a     *)
(* non-negative integer nargs equal to the number of positional parameters  *)
(* of the registered function besides the answer; each name registered so   *)
(* far maps to exactly the function its decorator was applied to.           *)
(***************************************************************************)
Kinds == {"binary", "multiclass", "score"}

C1_RegistryTyped ==
    /\ \A n \in DOMAIN CHECKS :
          /\ CHECKS[n].kind \in Kinds
          /\ CHECKS[n].nargs \in Nat
          /\ CHECKS[n].nargs = NParams(CHECKS[n].func) - 1
    /\ \A i \in 1..regpc :
          /\ Registrations[i].name \in DOMAIN CHECKS
          /\ CHECKS[Registrations[i].name].func = Registrations[i].func
    /\ \A n \in DOMAIN CHECKS : \E i \in 1..regpc : Registrations[i].name = n

C1_Witness ==
    /\ regpc = NRegs
    /\ Cardinality(DOMAIN CHECKS) = NRegs
    /\ CHECKS["affirmative"].nargs = 0
    /\ CHECKS["contains_all"].nargs = 1
    /\ CHECKS["extract_score"].kind = "score"

(***************************************************************************)
(* C3: a check registered with kind "binary" returns exactly the string "1" *)
(* or the string "0", for every response and every well-typed argument,     *)
(* the empty response, the empty target and the empty target list included. *)
(***************************************************************************)
C3_BinaryVerdict ==
    (cur.func # "" /\ CHECKS[cur.func].kind = "binary")
        => (cur.result \in {V0, V1} /\ cur.error = E_none)

\* contains_all of the empty response with the empty target list says "1"
C3_Witness ==
    /\ cur.func = "contains_all"
    /\ response = <<>>
    /\ cur.args = <<List(<<>>)>>
    /\ cur.result = V1

(***************************************************************************)
(* SpecPure: a session of check runs on one response, every run logged      *)
(* with the args it was given and the check's args after the call.          *)
(***************************************************************************)
ProbeAnswers == {<<"e">>, <<"E", " ">>, W_yes}

ProbeArgs(name) ==
    IF NParams(name) = 1 THEN {<<>>}
    ELSE IF name \in ListChecks THEN {<<List(<<>>)>>, <<List(<< <<"e">> >>)>>}
    ELSE {<<Str(<<"e">>)>>, <<Str(W_yes)>>}

InitPure ==
    /\ CHECKS = LoadedCHECKS
    /\ regpc = NRegs
    /\ response \in ProbeAnswers
    /\ cur = NoCall
    /\ log = <<>>
    /\ config = NoConfig
    /\ chk = NoRun
    /\ EvalIdle
    /\ StagesIdle

RunLogged ==
    /\ Len(log) < MaxRuns
    /\ \E name \in DOMAIN CHECKS :
         \E args \in ProbeArgs(name) :
            LET r == Invoke(name, response, args)
            IN  /\ cur' = r
                /\ log' = Append(log, [func |-> name, given |-> args, args |-> r.args,
                                       result |-> r.result, error |-> r.error])
    /\ UNCHANGED <<stVars, regVars, response, ckVars, evVars>>

NextPure == RunLogged

SpecPure == InitPure /\ [][NextPure]_vars

InitCheck ==
    /\ CHECKS = LoadedCHECKS
    /\ regpc = NRegs
    /\ response = <<>>
    /\ cur = NoCall
    /\ log = <<>>
    /\ config \in Configs
    /\ chk = NoRun
    /\ EvalIdle
    /\ StagesIdle

RunCheck ==
    /\ chk.outcome = "idle"
    /\ \E check \in CheckInputs, example \in ExampleInputs, reply \in Replies :
          LET r == run_check(check, example, config, reply)
          IN  chk' = [before |-> check, example |-> example, after |-> r.after,
                      outcome |-> r.outcome, queried |-> r.queried,
                      asserted |-> r.asserted]
    /\ UNCHANGED <<stVars, regVars, fnVars, config, evVars>>

NextCheck == RunCheck

SpecCheck == InitCheck /\ [][NextCheck]_vars

(***************************************************************************)
(* C4: run_check calls a check function only when the check's args list     *)
(* has exactly the registered nargs elements (a missing "args" counts as    *)
(* zero), so the assertion len(args) == nargs holds whenever it is reached; *)
(* a check of a registered function with another number of args is skipped  *)
(* and gets no result: it is left as it was.                                *)
(***************************************************************************)
RegisteredFunc(check) ==
    Has(check, "func") /\ IsStr(check["func"]) /\ check["func"].v \in DOMAIN CHECKS

C4_FixedArity ==
    /\ chk.outcome = "called"
          => Len(ArgsOf(chk.before)) = CHECKS[chk.before["func"].v].nargs
    /\ chk.asserted => chk.outcome # "assert_failed"
    /\ (/\ chk.outcome # "idle"
        /\ RegisteredFunc(chk.before)
        /\ Len(ArgsOf(chk.before)) # CHECKS[chk.before["func"].v].nargs)
          => (chk.outcome = "skipped" /\ chk.after = chk.before)

\* affirmative without an "args" key is called
C4_Witness ==
    /\ chk.outcome = "called"
    /\ ~Has(chk.before, "args")
    /\ chk.before["func"] = Name("affirmative")
    /\ chk.asserted
    /\ chk.after["result"] = V1

(***************************************************************************)
(* The evaluation stage's inputs and specifications.  SpecEval reads        *)
(* records that differ in llm, error and checks; SpecEvalTags records that  *)
(* differ in their tags, grouped by tags; SpecEvalFields records that       *)
(* differ in the field F, grouped by that field.                            *)
(***************************************************************************)
MaxRecords == 2
MaxChecks == 2

NoError == Str(<<>>)
SomeError == Str(<<"x">>)
Score7 == FloatOf(<<"7">>)

ECheck(f, e, r, ms) == [func |-> f, error |-> e, result |-> r, metrics |-> ms]
ERecord(l, e, tg, fv, cs) ==
    [llm |-> l, error |-> e, qid |-> "q1", tags |-> tg, F |-> fv, checks |-> cs]

BaseChecks ==
    {ECheck("is_eq", NoError, r, ms) : r \in {V1, V0}, ms \in {<<"m1">>, <<"m1", "m2">>}}
      \cup {ECheck("contains_all", NoError, V1, <<"m1">>),
            ECheck("extract_score", NoError, Score7, <<"m1">>),
            ECheck("nosuch", NoError, V1, <<"m1">>),
            ECheck("is_eq", SomeError, None, <<"m1">>),
            ECheck("is_eq", NoError, Absent, <<"m1">>),
            ECheck("is_eq", NoError, V1, <<>>)}

BaseRecords ==
    {ERecord(Name(l), NoError, <<>>, Str(<<"x">>), cs) :
        l \in LLMs, cs \in SeqsUpTo(BaseChecks, MaxChecks)}
      \cup {ERecord(Name(l), SomeError, <<>>, Str(<<"x">>), <<ECheck("is_eq", NoError, V1, <<"m1">>)>>) :
               l \in LLMs}
      \cup {ERecord(None, NoError, <<>>, Str(<<"x">>), <<>>)}

TagTexts == {<<>>, <<"a">>, <<"b">>, <<"a", ",", " ", "b">>}

TagRecords ==
    {ERecord(Name(l), NoError, tg, Str(<<"x">>), <<ECheck("is_eq", NoError, r, <<"m1">>)>>) :
        l \in LLMs, tg \in TagTexts, r \in {V1, V0}}
      \cup {ERecord(Name("A"), NoError, <<"a">>, Str(<<"x">>),
                    <<ECheck("extract_score", NoError, Score7, <<"m1">>)>>)}

ByTagsInputs == {<< <<"a">> >>, << <<"b">> >>, << <<"a">>, <<"b">> >>, << <<"a", ",", "b">> >>}

FieldValues == {Str(<<"x">>), Str(<<"y">>), Str(<<>>), Str(<<"n", "o">>), Absent}

FieldRecords ==
    {ERecord(Name(l), NoError, <<>>, fv, <<ECheck("is_eq", NoError, r, <<"m1">>)>>) :
        l \in LLMs, fv \in FieldValues, r \in {V1, V0}}
      \cup {ERecord(Name("A"), NoError, <<>>, Str(<<"x">>),
                    <<ECheck("extract_score", NoError, Score7, <<"m1">>)>>)}

MixedOutcomes == {"raise", "compare"}

EvalStart ==
    /\ CHECKS = LoadedCHECKS
    /\ regpc = NRegs
    /\ response = <<>>
    /\ cur = NoCall
    /\ log = <<>>
    /\ config = NoConfig
    /\ chk = NoRun
    /\ evpc = "reading"
    /\ idx = 0
    /\ checksdata = EmptyData
    /\ counts = ZeroCounts
    /\ dfrows = EmptyRows
    /\ StagesIdle

InitEval ==
    /\ EvalStart
    /\ indata \in SeqsUpTo(BaseRecords, MaxRecords)
    /\ evcfg \in {[by_tags |-> <<>>, by_qfields |-> <<>>, mixed |-> x] : x \in MixedOutcomes}

InitEvalTags ==
    /\ EvalStart
    /\ indata \in SeqsUpTo(TagRecords, MaxRecords)
    /\ evcfg \in {[by_tags |-> bt, by_qfields |-> <<>>, mixed |-> x] :
                     bt \in ByTagsInputs, x \in MixedOutcomes}

InitEvalFields ==
    /\ EvalStart
    /\ indata \in SeqsUpTo(FieldRecords, MaxRecords)
    /\ evcfg \in {[by_tags |-> <<>>, by_qfields |-> << <<"F">> >>, mixed |-> x] :
                     x \in MixedOutcomes}

SpecEval == InitEval /\ [][NextEval]_vars
SpecEvalTags == InitEvalTags /\ [][NextEval]_vars
SpecEvalFields == InitEvalFields /\ [][NextEval]_vars

(***************************************************************************)
(* What the claims about the evaluation speak of, read off the input        *)
(* records: a contribution <<i, j, k>> is metric number k of check number j *)
(* of record number i, for a record and a check without error.              *)
(***************************************************************************)
Metrics == {"m1", "m2"}

OkRecords == {i \in 1..Len(indata) : IsStr(indata[i].llm) /\ ~Truthy(indata[i].error)}
OkChecks(i) == {j \in 1..Len(indata[i].checks) : ~Truthy(indata[i].checks[j].error)}

Contribs ==
    UNION {UNION {{<<i, j, k>> : k \in 1..Len(indata[i].checks[j].metrics)} :
                     j \in OkChecks(i)} :
              i \in OkRecords}

C_rec(c) == indata[c[1]]
C_check(c) == indata[c[1]].checks[c[2]]
C_metric(c) == C_check(c).metrics[c[3]]
C_llm(c) == C_rec(c).llm.v
C_correct(c) == C_check(c).result = CHECKS[C_check(c).func].target
C_kind(c) == CHECKS[C_check(c).func].kind

OfMetric(m, l) == {c \in Contribs : C_metric(c) = m /\ C_llm(c) = l}
Frame(kind, m, l) == {c \in OfMetric(m, l) : C_kind(c) = kind}

InReport(group, l, m, stat, value) ==
    [group |-> group, llm |-> l, metric |-> m, stat |-> stat, value |-> value]
        \in DOMAIN dfrows

\* the report holds the n and the accuracy of the set S of contributions
\* under the given group name
Reported(group, l, m, S) ==
    /\ InReport(group, l, m, "n", Num(Cardinality(S)))
    /\ InReport(group, l, m, "accuracy",
                Ratio(Cardinality({c \in S : C_correct(c)}), Cardinality(S)))

(***************************************************************************)
(* C5: the registered target of every binary check is "1", so that a "1"    *)
(* verdict of any binary check is counted as correct by ragability_eval and *)
(* a "0" verdict as incorrect: the accuracy of a metric of binary checks is *)
(* the share of its "1" results.                                            *)
(***************************************************************************)
C5_PositiveIsCorrect ==
    evpc = "done" =>
        /\ \A key \in DOMAIN checksdata : \A i \in 1..Len(checksdata[key]) :
              checksdata[key][i].kind = "binary" => checksdata[key][i].target = V1
        /\ \A m \in Metrics, l \in LLMs :
              LET S == OfMetric(m, l)
              IN  (S # {} /\ \A c \in S : C_kind(c) = "binary")
                    => InReport(GroupAll, l, m, "accuracy",
                                Ratio(Cardinality({c \in S : C_check(c).result = V1}),
                                      Cardinality(S)))

(***************************************************************************)
(* C6: for every metric and every LLM the group "all" of the report holds a *)
(* row "<metric>:n" whose value is the number of check rows of that LLM     *)
(* that list the metric and a row "<metric>:accuracy" whose value is the    *)
(* number of those rows whose result equals the registered target, divided  *)
(* by that n.                                                               *)
(***************************************************************************)
C6_AllGroup ==
    evpc = "done" =>
        \A m \in Metrics, l \in LLMs :
            OfMetric(m, l) # {} => Reported(GroupAll, l, m, OfMetric(m, l))

(***************************************************************************)
(* C7: when the loop over the records has ended, n_errors (total and per    *)
(* LLM) counts the records with an error, nc_errors the checks with an      *)
(* error in records without error, and every other check of a record        *)
(* without error has contributed one row per listed metric.                 *)
(***************************************************************************)
ErrRecords(l) ==
    {i \in 1..Len(indata) : Truthy(indata[i].error) /\ indata[i].llm = Name(l)}

ErrChecks(l) ==
    UNION {{<<i, j>> : j \in (1..Len(indata[i].checks)) \ OkChecks(i)} :
              i \in {i \in OkRecords : indata[i].llm = Name(l)}}

RowsCollected ==
    UNION {{<<key, i>> : i \in 1..Len(checksdata[key])} : key \in DOMAIN checksdata}

C7_ErrorsIgnored ==
    (evpc \in {"done", "crashed"} /\ \A i \in 1..Len(indata) : IsStr(indata[i].llm)) =>
        /\ counts.n_errors = Cardinality(UNION {ErrRecords(l) : l \in LLMs})
        /\ \A l \in LLMs : counts.n_errors_per_llm[l] = Cardinality(ErrRecords(l))
        /\ counts.nc_errors = Cardinality(UNION {ErrChecks(l) : l \in LLMs})
        /\ \A l \in LLMs : counts.nc_errors_per_llm[l] = Cardinality(ErrChecks(l))
        /\ counts.n_rows = Cardinality(Contribs)
        /\ Cardinality(RowsCollected) = Cardinality(Contribs)

(***************************************************************************)
(* C8: for every tag T of by_tags, every metric and every LLM, the group    *)
(* "T:yes" of the report is made of exactly the rows whose record's         *)
(* comma-separated, whitespace-trimmed tag list contains T and the group    *)
(* "T:no" of exactly the other rows; n(T:yes) + n(T:no) is n of "all".      *)
(***************************************************************************)
HasTag(c, T) == InList(T, tag_values(C_rec(c).tags))

C8_TagGroups ==
    evpc \in {"done", "crashed"} =>
        \A n \in 1..Len(evcfg.by_tags) :
            LET T == evcfg.by_tags[n]
            IN  \A m \in Metrics, l \in LLMs :
                    LET Y == {c \in OfMetric(m, l) : HasTag(c, T)}
                        N == {c \in OfMetric(m, l) : ~HasTag(c, T)}
                    IN  /\ Y # {} => Reported(TagGroupName(T, TRUE), l, m, Y)
                        /\ N # {} => Reported(TagGroupName(T, FALSE), l, m, N)
                        /\ (Y \cup N) # {}
                              => InReport(GroupAll, l, m, "n",
                                          Num(Cardinality(Y) + Cardinality(N)))

(***************************************************************************)
(* What does hold of the tag groups: in a finished report, for every data   *)
(* frame (kind and metric) and every LLM, the rows of "T:yes" and "T:no"    *)
(* are those of the frame's rows with and without the tag T, and every row  *)
(* of these groups stems from such a set.                                   *)
(***************************************************************************)
TagYes(kind, m, l, T) == {c \in Frame(kind, m, l) : HasTag(c, T)}
TagNo(kind, m, l, T) == {c \in Frame(kind, m, l) : ~HasTag(c, T)}

TagGroupsPerFrame ==
    evpc = "done" =>
        \A n \in 1..Len(evcfg.by_tags) :
            LET T == evcfg.by_tags[n]
            IN  /\ \A kind \in Kinds, m \in Metrics, l \in LLMs :
                      LET Y == TagYes(kind, m, l, T)
                          N == TagNo(kind, m, l, T)
                      IN  /\ Y # {} => Reported(TagGroupName(T, TRUE), l, m, Y)
                          /\ N # {} => Reported(TagGroupName(T, FALSE), l, m, N)
                          /\ (Y \cup N) # {}
                                => InReport(GroupAll, l, m, "n",
                                            Num(Cardinality(Y) + Cardinality(N)))
                /\ \A r \in DOMAIN dfrows :
                      (r.stat = "n" /\ r.group \in {TagGroupName(T, b) : b \in BOOLEAN})
                         => \E kind \in Kinds :
                               LET S == IF r.group = TagGroupName(T, TRUE)
                                        THEN TagYes(kind, r.metric, r.llm, T)
                                        ELSE TagNo(kind, r.metric, r.llm, T)
                               IN  S # {} /\ r.value = Num(Cardinality(S))

(***************************************************************************)
(* C9: for a by_tags element that is a comma-separated list of tags, the    *)
(* "yes" group holds exactly the rows whose record carries every tag of the *)
(* list, the "no" group the rows that lack at least one of them.            *)
(***************************************************************************)
HasAllTags(c, taglist) ==
    \A i \in 1..Len(tag_values(taglist)) :
        InList(tag_values(taglist)[i], tag_values(C_rec(c).tags))

C9_TagLists ==
    evpc = "done" =>
        \A n \in 1..Len(evcfg.by_tags) :
            LET T == evcfg.by_tags[n]
            IN  \A m \in Metrics, l \in LLMs :
                    LET Y == {c \in OfMetric(m, l) : HasAllTags(c, T)}
                        N == {c \in OfMetric(m, l) : ~HasAllTags(c, T)}
                    IN  /\ Y # {} => Reported(TagGroupName(T, TRUE), l, m, Y)
                        /\ N # {} => Reported(TagGroupName(T, FALSE), l, m, N)

(***************************************************************************)
(* C10: for every field F of by_qfields, every metric and every LLM, each   *)
(* distinct value v of F among the rows has a group named "F:v" in the      *)
(* report that holds exactly the rows whose F is v; the n of these groups   *)
(* add up to n of "all".                                                    *)
(***************************************************************************)
FieldIs(m, l, v) == {c \in OfMetric(m, l) : C_rec(c).F = v}
ValuesOf(m, l) == {C_rec(c).F : c \in OfMetric(m, l)}

C10_GroupPerValue ==
    evpc = "done" =>
        \A n \in 1..Len(evcfg.by_qfields) :
            LET F == evcfg.by_qfields[n]
            IN  \A m \in Metrics, l \in LLMs :
                    /\ \A v \in ValuesOf(m, l) :
                          Reported(F \o <<":">> \o v.v, l, m, FieldIs(m, l, v))
                    /\ OfMetric(m, l) # {}
                          => InReport(GroupAll, l, m, "n", Num(Cardinality(OfMetric(m, l))))

(***************************************************************************)
(* What does hold of the field groups: in a finished report, for every data *)
(* frame and every LLM, the rows with F = v are reported under "F:v" when v *)
(* is not empty and under "F:no" when v is the empty string.                *)
(***************************************************************************)
FieldLabel(F, v) == IF v.v # <<>> THEN F \o <<":">> \o v.v ELSE F \o L_no

FieldGroupsPerFrame ==
    evpc = "done" =>
        \A n \in 1..Len(evcfg.by_qfields) :
            LET F == evcfg.by_qfields[n]
            IN  \A kind \in Kinds, m \in Metrics, l \in LLMs :
                    \A v \in {C_rec(c).F : c \in Frame(kind, m, l)} :
                        Reported(FieldLabel(F, v), l, m,
                                 {c \in Frame(kind, m, l) : C_rec(c).F = v})

(***************************************************************************)
(* SpecText: is_textual_eq and is_textual_eq_oneof are applied to texts     *)
(* with upper and lower case letters and with whitespace at the ends and    *)
(* between the letters.                                                     *)
(***************************************************************************)
MaxTextLen == 4

TextProbes == SeqsUpTo(Alphabet, MaxTextLen)

InitText ==
    /\ CHECKS = LoadedCHECKS
    /\ regpc = NRegs
    /\ response \in TextProbes
    /\ cur = NoCall
    /\ log = <<>>
    /\ config = NoConfig
    /\ chk = NoRun
    /\ EvalIdle
    /\ StagesIdle

ApplyTextual ==
    /\ cur = NoCall
    /\ \E target \in TextProbes :
          \/ cur' = Invoke("is_textual_eq", response, <<Str(target)>>)
          \/ cur' = Invoke("is_textual_eq_oneof", response, <<List(<<target>>)>>)
    /\ UNCHANGED <<stVars, regVars, response, log, ckVars, evVars>>

NextText == ApplyTextual

SpecText == InitText /\ [][NextText]_vars

(***************************************************************************)
(* C11: is_textual_eq (and is_textual_eq_oneof with one target) returns "1" *)
(* exactly when the answer and the target differ at most in letter case and *)
(* in whitespace, be it leading, trailing or between words, and "0" when    *)
(* they differ in any other character.                                      *)
(***************************************************************************)
NoWhitespace(s) == SelectSeq(s, LAMBDA c : c \notin Whitespace)

SameButCaseAndWhitespace(a, b) == lower(NoWhitespace(a)) = lower(NoWhitespace(b))

C11_TextualEq ==
    cur.func \in {"is_textual_eq", "is_textual_eq_oneof"} =>
        LET target == IF cur.func = "is_textual_eq" THEN cur.args[1].v
                      ELSE cur.args[1].v[1]
        IN  /\ cur.error = E_none
            /\ cur.result = IF SameButCaseAndWhitespace(response, target) THEN V1 ELSE V0

\* What does hold: the comparison ignores case and the whitespace at the two
\* ends only
TextualEqAtEnds ==
    cur.func \in {"is_textual_eq", "is_textual_eq_oneof"} =>
        LET target == IF cur.func = "is_textual_eq" THEN cur.args[1].v
                      ELSE cur.args[1].v[1]
        IN  cur.result = IF lower(strip(response)) = lower(strip(target)) THEN V1 ELSE V0

(***************************************************************************)
(* SpecWords: affirmative and negative are applied to a word, or something  *)
(* close to a word, between two runs of characters: runs of 0, 1, 10 and 11 *)
(* periods, blanks or apostrophes, runs that end in a newline, and runs     *)
(* with another character.                                                  *)
(***************************************************************************)
Rep(c, n) == [i \in 1..n |-> c]

PadSamples ==
    {Rep(c, n) : c \in {".", " ", "'"}, n \in {0, 1, PadMax, PadMax + 1}}
        \cup {Rep(".", n) \o <<"\n">> : n \in {0, PadMax - 1, PadMax, PadMax + 1}}
        \cup {<<"x">>, <<".", "x">>}

Cores ==
    AffirmativeWords \cup NegativeWords
        \cup {<<"Y", "E", "s">>, <<"N", "o">>, <<"y", "e">>, <<"n", "o", "n">>, <<>>}

WordProbes == {pre \o w \o post : pre \in PadSamples, w \in Cores, post \in PadSamples}

InitWords ==
    /\ CHECKS = LoadedCHECKS
    /\ regpc = NRegs
    /\ response \in WordProbes
    /\ cur = NoCall
    /\ log = <<>>
    /\ config = NoConfig
    /\ chk = NoRun
    /\ EvalIdle
    /\ StagesIdle

ApplyWordCheck ==
    /\ cur = NoCall
    /\ \E name \in {"affirmative", "negative"} : cur' = Invoke(name, response, <<>>)
    /\ UNCHANGED <<stVars, regVars, response, log, ckVars, evVars>>

NextWords == ApplyWordCheck

SpecWords == InitWords /\ [][NextWords]_vars

(***************************************************************************)
(* C12: affirmative returns "1" exactly when the lower-cased answer is one  *)
(* of yes, true, positive preceded and followed by at most 10 characters    *)
(* each, all of them periods, whitespace or apostrophes, and "0" for every  *)
(* other answer; negative does the same for no, false, negative.            *)
(***************************************************************************)
WordBetweenPads(s, words) ==
    \E w \in words :
        \E i \in 0..PadMax :
            /\ i + Len(w) <= Len(s)
            /\ Len(s) - (i + Len(w)) <= PadMax
            /\ AllIn(SubSeq(s, 1, i), PadChars)
            /\ SubSeq(s, i + 1, i + Len(w)) = w
            /\ AllIn(SubSeq(s, i + Len(w) + 1, Len(s)), PadChars)

WordsOf(name) == IF name = "affirmative" THEN AffirmativeWords ELSE NegativeWords

C12_WordBetweenPads ==
    cur.func \in {"affirmative", "negative"} =>
        /\ cur.error = E_none
        /\ cur.result = IF WordBetweenPads(lower(response), WordsOf(cur.func))
                        THEN V1 ELSE V0

\* What does hold: the verdict differs from the one described only for an
\* answer that ends in a newline after 10 other characters behind the word
TrailingNewlineOnly ==
    (/\ cur.func \in {"affirmative", "negative"}
     /\ cur.result # IF WordBetweenPads(lower(response), WordsOf(cur.func)) THEN V1 ELSE V0)
        => /\ cur.result = V1
           /\ response[Len(response)] = "\n"
           /\ WordBetweenPads(lower(SubSeq(response, 1, Len(response) - 1)),
                              WordsOf(cur.func))

(***************************************************************************)
(* SpecScore: run_check runs an extract_score check on responses made of    *)
(* digits, periods, minus signs and blanks: no number, one number, several. *)
(***************************************************************************)
ScoreAlphabet == {"7", ".", "-", " "}

ScoreProbes == SeqsUpTo(ScoreAlphabet, MaxTextLen)

ScoreChecks ==
    {MkDict({<<"func", Name("extract_score")>>, <<"metrics", List(<<"m">>)>>,
             <<"query", q>>}) : q \in {Absent, None}}

InitScore ==
    /\ CHECKS = LoadedCHECKS
    /\ regpc = NRegs
    /\ response \in ScoreProbes
    /\ cur = NoCall
    /\ log = <<>>
    /\ config \in {[all |-> a, dry_run |-> FALSE, prompts_dict |-> {}] : a \in BOOLEAN}
    /\ chk = NoRun
    /\ EvalIdle
    /\ StagesIdle

RunScoreCheck ==
    /\ chk.outcome = "idle"
    /\ \E check \in ScoreChecks :
          LET example == [response |-> response]
              r == run_check(check, example, config, [answer |-> <<>>, error |-> <<>>])
          IN  chk' = [before |-> check, example |-> example, after |-> r.after,
                      outcome |-> r.outcome, queried |-> r.queried,
                      asserted |-> r.asserted]
    /\ UNCHANGED <<stVars, regVars, fnVars, config, evVars>>

NextScore == RunScoreCheck

SpecScore == InitScore /\ [][NextScore]_vars

ValidCheck(check) ==
    /\ RegisteredFunc(check)
    /\ Has(check, "metrics")
    /\ Len(ArgsOf(check)) = CHECKS[check["func"].v].nargs

C14_SkipWithResult ==
    (chk.outcome # "idle" /\ ValidCheck(chk.before)) =>
        /\ (~config.all /\ Has(chk.before, "result"))
              => (chk.outcome = "skipped" /\ ~chk.queried /\ chk.after = chk.before)
        /\ config.all => chk.outcome \notin {"skipped", "raised"}

\* What does hold: the same for the checks that have a "query" field
SkipWithResultAndQuery ==
    (chk.outcome # "idle" /\ ValidCheck(chk.before) /\ Has(chk.before, "query")) =>
        /\ (~config.all /\ Has(chk.before, "result"))
              => (chk.outcome = "skipped" /\ ~chk.queried /\ chk.after = chk.before)
        /\ config.all => chk.outcome \notin {"skipped", "raised"}

(***************************************************************************)
(* Files.  The text of a file is a sequence of tokens: single characters    *)
(* and the texts of whole records.  A record's text carries the format it   *)
(* was written in: json.dumps(d) gives one line, json.dumps(d, indent=2)    *)
(* several lines, hjson.dumps(d, indent=2) several lines of Hjson.          *)
(***************************************************************************)
Ch(c) == [t |-> "ch", v |-> c]
NL == Ch("\n")
Obj(fmt, rec) == [t |-> "obj", fmt |-> fmt, v |-> rec]

AcceptedOutputs == {".jsonl", ".json", ".hjson"}

\* the text run() writes for one record
Dumps(output, rec) ==
    Obj(IF output = ".json" THEN "json_indent"
        ELSE IF output = ".hjson" THEN "hjson" ELSE "json_line", rec)

\* f.write("[\n") and f.write("]\n") for the two array formats
ArrayOpen(output) == IF output \in {".json", ".hjson"} THEN <<Ch("["), NL>> ELSE <<>>
ArrayClose(output) == IF output \in {".json", ".hjson"} THEN <<Ch("]"), NL>> ELSE <<>>

(***************************************************************************)
(* ragability_query.run().  pos is the position in the three nested loops   *)
(* (llmname, query, pid); Advance finds the next position at which the      *)
(* innermost body runs, or the end of the loops.                            *)
(***************************************************************************)
\* the pids of the innermost loop, with a pids field read before the pid field
Pids_pids_first(query) ==
    IF Has(query, "pids") THEN query["pids"].v
    ELSE IF Has(query, "pid") THEN <<query["pid"].v>>
    ELSE qcfg.prompt

\* the pids of the innermost loop: query["pid"], query["pids"] or all prompts
Pids(query) ==
    IF Has(query, "pid") THEN <<query["pid"].v>>
    ELSE IF Has(query, "pids") THEN query["pids"].v
    ELSE qcfg.prompt

RECURSIVE Advance(_, _, _)
Advance(l, i, p) ==
    IF l > Len(qcfg.llmnames) THEN [pc |-> "end", l |-> l, i |-> 1, p |-> 1]
    ELSE IF i > Len(inputs) THEN Advance(l + 1, 1, 1)
    ELSE IF p > Len(Pids(inputs[i])) THEN Advance(l, i + 1, 1)
    ELSE [pc |-> "loop", l |-> l, i |-> i, p |-> p]

Crashed == [pc |-> "crashed", l |-> pos.l, i |-> pos.i, p |-> pos.p]

\* the first skip, with a response that is tested for truth instead of None
SkipsWithResponse_if_truthy(query) ==
    /\ ~qcfg.all
    /\ Truthy(Get(query, "response", None))
    /\ ~Truthy(Get(query, "error", None))

\* not config['all'] and query.get("response") is not None and not query.get("error")
SkipsWithResponse(query) ==
    /\ ~qcfg.all
    /\ Get(query, "response", None) # None
    /\ ~Truthy(Get(query, "error", None))

\* if query.get("response"): continue
SkipsAnyResponse(query) == Truthy(Get(query, "response", None))

E_dry_run == Str(<<"N", "O", "T", " ", "R", "U", "N">>)

\* towrite = query.copy() and the five fields set on it
ToWrite(query, resp, error, pid, llmname, cost) ==
    Put(Put(Put(Put(Put(query, "response", resp), "error", error),
                "pid", Name(pid)), "llm", Name(llmname)), "cost", cost)

QueryOpen ==
    /\ pos.pc = "start"
    /\ IF qcfg.output \notin AcceptedOutputs
       THEN pos' = Crashed /\ UNCHANGED outfile
       ELSE /\ outfile' = ArrayOpen(qcfg.output)
            /\ pos' = Advance(1, 1, 1)
    /\ UNCHANGED <<regVars, fnVars, ckVars, evVars, inputs, qcfg, sent, written, loc, data>>

\* one pass of the body of "for pid in pids"
QueryOne ==
    /\ pos.pc = "loop"
    /\ LET llmname == qcfg.llmnames[pos.l]
           query == inputs[pos.i]
           pid == Pids(query)[pos.p]
           next == Advance(pos.l, pos.i, pos.p + 1)
       IN  IF ~InList(pid, qcfg.prompt)
           THEN pos' = Crashed /\ UNCHANGED <<sent, written, outfile, loc>>
           ELSE IF SkipsWithResponse(query) \/ SkipsAnyResponse(query)
           THEN pos' = next /\ UNCHANGED <<sent, written, outfile, loc>>
           ELSE IF qcfg.dry_run
           THEN IF loc.cost = Absent
                THEN pos' = Crashed /\ UNCHANGED <<sent, written, outfile, loc>>
                ELSE LET towrite == ToWrite(query, Str(<<>>), E_dry_run, pid, llmname, loc.cost)
                     IN  /\ written' = Append(written, towrite)
                         /\ outfile' = outfile \o <<Dumps(qcfg.output, towrite), NL>>
                         /\ loc' = [loc EXCEPT !.n_outputs = @ + 1]
                         /\ pos' = next
                         /\ UNCHANGED sent
           ELSE \E ret \in Replies :
                   LET towrite == ToWrite(query, Str(ret.answer), Str(ret.error), pid,
                                          llmname, Num(1))
                   IN  /\ sent' = Append(sent, [llm |-> llmname, i |-> pos.i, pid |-> pid])
                       /\ written' = Append(written, towrite)
                       /\ outfile' = outfile \o <<Dumps(qcfg.output, towrite), NL>>
                       /\ loc' = [n_outputs |-> loc.n_outputs + 1,
                                  n_errors |-> loc.n_errors + (IF ret.error # <<>> THEN 1 ELSE 0),
                                  cost |-> Num(1)]
                       /\ pos' = next
    /\ UNCHANGED <<regVars, fnVars, ckVars, evVars, inputs, qcfg, data>>

QueryClose ==
    /\ pos.pc = "end"
    /\ outfile' = outfile \o ArrayClose(qcfg.output)
    /\ pos' = [pos EXCEPT !.pc = "done"]
    /\ UNCHANGED <<regVars, fnVars, ckVars, evVars, inputs, qcfg, sent, written, loc, data>>

(***************************************************************************)
(* Inputs of the query stage: records as read_input_file accepts them (qid  *)
(* and query present), with and without a response, an error, a pid and a   *)
(* pids field; the prompt file defines p1 and p2.                           *)
(***************************************************************************)
MaxInputs == 2

QueryResponses == {Absent, None, Str(<<>>), Str(W_yes)}
QueryErrors == {Absent, Str(<<>>), Str(<<"x">>)}
PromptChoices ==
    {[pid |-> Absent, pids |-> Absent],
     [pid |-> Name("p2"), pids |-> Absent],
     [pid |-> Absent, pids |-> List(<<"p2", "p1">>)],
     [pid |-> Name("p1"), pids |-> List(<<"p2">>)],
     [pid |-> Name("p9"), pids |-> Absent]}

QueryRecord(resp, error, pc) ==
    MkDict({<<"qid", Name("q")>>, <<"query", Str(<<"a">>)>>, <<"response", resp>>,
            <<"error", error>>, <<"pid", pc.pid>>, <<"pids", pc.pids>>})

QueryRecords ==
    {QueryRecord(r, e, pc) : r \in QueryResponses, e \in QueryErrors, pc \in PromptChoices}

QueryConfigs ==
    [all : BOOLEAN, dry_run : BOOLEAN, llmnames : {<<"A">>, <<"A", "B">>},
     prompt : {<<"p1", "p2">>}, output : {".jsonl", ".txt"}]

InitQuery ==
    /\ CHECKS = LoadedCHECKS
    /\ regpc = NRegs
    /\ response = <<>>
    /\ cur = NoCall
    /\ log = <<>>
    /\ config = NoConfig
    /\ chk = NoRun
    /\ EvalIdle
    /\ inputs \in SeqsUpTo(QueryRecords, MaxInputs)
    /\ qcfg \in QueryConfigs
    /\ pos = [Idle EXCEPT !.pc = "start"]
    /\ sent = <<>>
    /\ written = <<>>
    /\ outfile = <<>>
    /\ loc = NoLocals
    /\ data = NotRead

NextQuery == QueryOpen \/ QueryOne \/ QueryClose

SpecQuery == InitQuery /\ [][NextQuery]_vars

\* the prompts selected for a record: its pid, else its pids, else every prompt
SelectedPrompts(i) ==
    LET query == inputs[i]
    IN  IF "pid" \in DOMAIN query THEN {query["pid"].v}
        ELSE IF "pids" \in DOMAIN query THEN {query["pids"].v[k] : k \in 1..Len(query["pids"].v)}
        ELSE {qcfg.prompt[k] : k \in 1..Len(qcfg.prompt)}

RunLLMs == {qcfg.llmnames[k] : k \in 1..Len(qcfg.llmnames)}
Records == 1..Len(inputs)
QueryDone == pos.pc = "done"
WasSent(l, i, pid) == \E k \in 1..Len(sent) : sent[k] = [llm |-> l, i |-> i, pid |-> pid]
NoResponse(i) == Get(inputs[i], "response", None) = None
HasResponse(i) == ~NoResponse(i)
WithoutError(i) == Get(inputs[i], "error", None) \in {None, Str(<<>>)}

\* C15: with --all, a finished run that was not a dry run has sent every
\* record, the ones that came with a response included, to every LLM with
\* each of the record's selected prompts.
C15_AllRunsEveryQuery ==
    (QueryDone /\ qcfg.all /\ ~qcfg.dry_run) =>
        \A l \in RunLLMs : \A i \in Records : \A pid \in SelectedPrompts(i) : WasSent(l, i, pid)

\* what does hold with --all: every record whose response is missing, None
\* or empty is sent
AllRunsWithoutResponse ==
    (QueryDone /\ qcfg.all /\ ~qcfg.dry_run) =>
        \A l \in RunLLMs : \A i \in Records : \A pid \in SelectedPrompts(i) :
            ~Truthy(Get(inputs[i], "response", None)) => WasSent(l, i, pid)

SkippedKind(i) == HasResponse(i) /\ WithoutError(i)
RetryKind(i) == NoResponse(i) /\ Truthy(Get(inputs[i], "error", None))

\* C16: without --all, no LLM query is ever issued for a record whose
\* response is not None and whose error is missing or empty, whatever the
\* LLM and the prompt; and a finished run that was not a dry run has sent
\* every record with a non-empty error and no response to every LLM with
\* each of its selected prompts.
C16_SkipWithResponse ==
    ~qcfg.all =>
        /\ \A k \in 1..Len(sent) : ~SkippedKind(sent[k].i)
        /\ (QueryDone /\ ~qcfg.dry_run) =>
               \A i \in Records : RetryKind(i) =>
                   \A l \in RunLLMs : \A pid \in SelectedPrompts(i) : WasSent(l, i, pid)

\* a finished run without --all over a record with an empty response and no
\* error, which was passed over, and a record with an error and no response,
\* which was sent to both LLMs
C16_Witness ==
    /\ QueryDone /\ ~qcfg.all /\ ~qcfg.dry_run
    /\ Len(inputs) = 2 /\ Len(qcfg.llmnames) = 2
    /\ Get(inputs[1], "response", None) = Str(<<>>) /\ SkippedKind(1)
    /\ RetryKind(2)
    /\ \A l \in RunLLMs : \E pid \in SelectedPrompts(2) : WasSent(l, 2, pid)
    /\ \A k \in 1..Len(sent) : sent[k].i = 2

\* the selected prompts of a record in prompt order
PromptOrder(i) ==
    LET query == inputs[i]
    IN  IF "pid" \in DOMAIN query THEN <<query["pid"].v>>
        ELSE IF "pids" \in DOMAIN query THEN query["pids"].v
        ELSE qcfg.prompt

\* the (LLM, record, prompt) triples of the records without a response: LLM
\* by LLM, within an LLM in input order, within a record in prompt order
RECURSIVE ExpectedFrom(_, _, _)
ExpectedFrom(l, i, p) ==
    IF l > Len(qcfg.llmnames) THEN <<>>
    ELSE IF i > Len(inputs) THEN ExpectedFrom(l + 1, 1, 1)
    ELSE IF p > Len(PromptOrder(i)) \/ ~NoResponse(i) THEN ExpectedFrom(l, i + 1, 1)
    ELSE <<[llm |-> qcfg.llmnames[l], i |-> i, pid |-> PromptOrder(i)[p]]>>
             \o ExpectedFrom(l, i, p + 1)

RECURSIVE OfNoResponse(_)
OfNoResponse(s) ==
    IF s = <<>> THEN <<>>
    ELSE (IF NoResponse(Head(s).i) THEN <<Head(s)>> ELSE <<>>) \o OfNoResponse(Tail(s))

IsPrefix(s, t) == Len(s) <= Len(t) /\ SubSeq(t, 1, Len(s)) = s

\* the k-th record written is the k-th query's record with the five fields
\* of the answer set and every other field as it was read
WrittenFor(k) ==
    LET q == inputs[sent[k].i]
        w == written[k]
    IN  /\ DOMAIN w = DOMAIN q \cup {"response", "error", "pid", "llm", "cost"}
        /\ w["llm"] = Name(sent[k].llm)
        /\ w["pid"] = Name(sent[k].pid)
        /\ \A key \in DOMAIN q \ {"response", "error", "pid", "llm", "cost"} : w[key] = q[key]

ReadRaised == [state |-> "raised", v |-> <<>>]
Read(list) == [state |-> "ok", v |-> list]

JsonFormats == {"json_line", "json_indent"}
HjsonFormats == {"json_line", "json_indent", "hjson"}

\* the lines of a text, each without its newline
RECURSIVE Lines(_, _)
Lines(text, line) ==
    IF text = <<>> THEN (IF line = <<>> THEN <<>> ELSE <<line>>)
    ELSE IF Head(text) = NL THEN <<line>> \o Lines(Tail(text), <<>>)
    ELSE Lines(Tail(text), Append(line, Head(text)))

\* the .jsonl branch: empty lines are ignored, every other line is one dict
RECURSIVE ReadLines(_, _)
ReadLines(lines, acc) ==
    IF lines = <<>> THEN Read(acc)
    ELSE LET line == Head(lines)
         IN  IF line = <<>> THEN ReadLines(Tail(lines), acc)
             ELSE IF Len(line) = 1 /\ line[1].t = "obj" /\ line[1].fmt = "json_line"
             THEN ReadLines(Tail(lines), Append(acc, line[1].v))
             ELSE ReadRaised

\* the elements of an array after its "[".  st is "start", "elem" (after an
\* element) or "sep" (after a separator).  JSON wants a comma between two
\* elements and none before "]"; in Hjson a newline separates as well and a
\* comma may trail.
RECURSIVE ReadElements(_, _, _, _)
ReadElements(text, st, acc, hjson) ==
    IF text = <<>> THEN ReadRaised
    ELSE LET tok == Head(text)
             rest == Tail(text)
         IN  IF tok = NL
             THEN ReadElements(rest, IF hjson /\ st = "elem" THEN "sep" ELSE st, acc, hjson)
             ELSE IF tok.t = "obj"
             THEN IF st \in {"start", "sep"}
                     /\ tok.fmt \in (IF hjson THEN HjsonFormats ELSE JsonFormats)
                  THEN ReadElements(rest, "elem", Append(acc, tok.v), hjson)
                  ELSE ReadRaised
             ELSE IF tok.v = ","
             THEN IF st = "elem" THEN ReadElements(rest, "sep", acc, hjson) ELSE ReadRaised
             ELSE IF tok.v = "]"
             THEN IF (hjson \/ st # "sep") /\ \A k \in 1..Len(rest) : rest[k] = NL
                  THEN Read(acc) ELSE ReadRaised
             ELSE ReadRaised

\* json.load / hjson.load and the test that the document is a list
RECURSIVE ReadArray(_, _)
ReadArray(text, hjson) ==
    IF text = <<>> THEN ReadRaised
    ELSE IF Head(text) = NL THEN ReadArray(Tail(text), hjson)
    ELSE IF Head(text).t = "ch" /\ Head(text).v = "["
    THEN ReadElements(Tail(text), "start", <<>>, hjson)
    ELSE ReadRaised

read_file(input_file, text) ==
    IF input_file = ".jsonl" THEN ReadLines(Lines(text, <<>>), <<>>)
    ELSE IF input_file = ".json" THEN ReadArray(text, FALSE)
    ELSE IF input_file = ".hjson" THEN ReadArray(text, TRUE)
    ELSE ReadRaised

\* the tests of read_input_file on one entry
EntryAccepted(entry) ==
    /\ "qid" \in DOMAIN entry
    /\ "query" \in DOMAIN entry
    /\ entry["query"].t = "str"
    /\ "checks" \in DOMAIN entry =>
           /\ entry["checks"].t = "list"
           /\ \A k \in 1..Len(entry["checks"].v) :
                  LET check == entry["checks"].v[k]
                  IN  /\ "query" \in DOMAIN check => check["query"].t = "str"
                      /\ "func" \in DOMAIN check => check["func"].t = "str"

read_input_file(input_file, text) ==
    LET d == read_file(input_file, text)
    IN  IF d.state = "ok" /\ \A k \in 1..Len(d.v) : EntryAccepted(d.v[k]) THEN d ELSE ReadRaised

\* the output file of a finished run is read as an input file
ReadOutput ==
    /\ pos.pc = "done"
    /\ data = NotRead
    /\ data' = read_input_file(qcfg.output, outfile)
    /\ UNCHANGED <<regVars, fnVars, ckVars, evVars, inputs, qcfg, pos, sent, written, outfile, loc>>

(***************************************************************************)
(* SpecQueryFiles: the query stage writes a .jsonl, .json or .hjson file    *)
(* for one or two LLMs and up to MaxInputs records, and the file is read    *)
(* back.                                                                    *)
(***************************************************************************)
FileRecords ==
    {QueryRecord(r, Absent, pc) :
        r \in {Absent, Str(W_yes)},
        pc \in {[pid |-> Absent, pids |-> Absent], [pid |-> Name("p2"), pids |-> Absent]}}

InitQueryFiles ==
    /\ CHECKS = LoadedCHECKS
    /\ regpc = NRegs
    /\ response = <<>>
    /\ cur = NoCall
    /\ log = <<>>
    /\ config = NoConfig
    /\ chk = NoRun
    /\ EvalIdle
    /\ inputs \in SeqsUpTo(FileRecords, MaxInputs)
    /\ qcfg \in [all : {FALSE}, dry_run : {FALSE}, llmnames : {<<"A">>, <<"A", "B">>},
                 prompt : {<<"p1", "p2">>}, output : AcceptedOutputs]
    /\ pos = [Idle EXCEPT !.pc = "start"]
    /\ sent = <<>>
    /\ written = <<>>
    /\ outfile = <<>>
    /\ loc = NoLocals
    /\ data = NotRead

NextQueryFiles == QueryOpen \/ QueryOne \/ QueryClose \/ ReadOutput

SpecQueryFiles == InitQueryFiles /\ [][NextQueryFiles]_vars

\* C18: the output file of a finished run, whatever its extension and the
\* number of records written, is read back by read_input_file as the list
\* of the records written, in order.
C18_ReadBack == data # NotRead => data = Read(written)

\* what does hold: .jsonl and .hjson files are read back as written, and
\* .json files of at most one record
ReadBackButJsonArrays ==
    (data # NotRead /\ (qcfg.output # ".json" \/ Len(written) <= 1)) => data = Read(written)

(***************************************************************************)
(* ragability_check.run().  One step takes one example through the loop     *)
(* body: the two tests that pass over it, run_check on each of its checks   *)
(* in order with the error count, and the write.  replies[p] is what the    *)
(* checker LLM answers if check p queries it.                               *)
(***************************************************************************)
\* for check in example["checks"]: run_check, cost, the warning on an error.
\* r is what run_check made of check p.
RECURSIVE RunChecks(_, _, _, _, _)
AfterCheck(r, checks, p, example, replies, acc) ==
    LET queried == IF r.queried THEN Append(acc.queried, p) ELSE acc.queried
        failed == Truthy(Get(r.after, "error", None))
    IN  IF r.outcome \in {"raised", "assert_failed"} \/ (failed /\ ~Has(r.after, "query"))
        THEN [acc EXCEPT !.outcome = "crashed", !.queried = queried]
        ELSE RunChecks([checks EXCEPT ![p] = r.after], p + 1, example, replies,
                       [acc EXCEPT !.n_errors = @ + (IF failed THEN 1 ELSE 0),
                                   !.queried = queried])

RunChecks(checks, p, example, replies, acc) ==
    IF p > Len(checks) THEN [acc EXCEPT !.checks = checks]
    ELSE CHOOSE res \in
             {AfterCheck(r, checks, p, example, replies, acc) :
                 r \in {run_check(checks[p], [response |-> example["response"].v], config,
                                  replies[p])}} : TRUE

NoChecksRun == [checks |-> <<>>, outcome |-> "ok", n_errors |-> 0, queried |-> <<>>]

\* not "checks" in example or len(example["checks"]) == 0
NoChecks(example) == ~Has(example, "checks") \/ Len(example["checks"].v) = 0

NextExample(i) ==
    [pc |-> IF i + 1 > Len(inputs) THEN "end" ELSE "loop", l |-> 0, i |-> i + 1, p |-> 0]

CheckOpen ==
    /\ pos.pc = "start"
    /\ outfile' = ArrayOpen(config.output)
    /\ pos' = NextExample(0)
    /\ UNCHANGED <<regVars, fnVars, ckVars, evVars, inputs, qcfg, sent, written, loc, data>>

CheckExample ==
    /\ pos.pc = "loop"
    /\ LET example == inputs[pos.i]
       IN  IF NoChecks(example) \/ Truthy(Get(example, "error", None))
           THEN pos' = NextExample(pos.i) /\ UNCHANGED <<sent, written, outfile, loc>>
           ELSE \E replies \in [1..Len(example["checks"].v) -> Replies] :
                \E r \in {RunChecks(example["checks"].v, 1, example, replies, NoChecksRun)} :
                   LET queries == [k \in 1..Len(r.queried) |->
                                      [llm |-> "llm", i |-> pos.i, pid |-> r.queried[k]]]
                       towrite == Put(example, "checks", List(r.checks))
                   IN  IF r.outcome = "crashed"
                       THEN /\ pos' = Crashed
                            /\ sent' = sent \o queries
                            /\ UNCHANGED <<written, outfile, loc>>
                       ELSE /\ sent' = sent \o queries
                            /\ written' = Append(written, towrite)
                            /\ outfile' = outfile \o <<Dumps(config.output, towrite), NL>>
                            /\ loc' = [loc EXCEPT !.n_outputs = @ + 1,
                                                  !.n_errors = @ + r.n_errors]
                            /\ pos' = NextExample(pos.i)
    /\ UNCHANGED <<regVars, fnVars, ckVars, evVars, inputs, qcfg, data>>

CheckClose ==
    /\ pos.pc = "end"
    /\ outfile' = outfile \o ArrayClose(config.output)
    /\ pos' = [pos EXCEPT !.pc = "done"]
    /\ UNCHANGED <<regVars, fnVars, ckVars, evVars, inputs, qcfg, sent, written, loc, data>>

\* the output file of the check stage is read as an input file
ReadChecked ==
    /\ pos.pc = "done"
    /\ data = NotRead
    /\ data' = read_input_file(config.output, outfile)
    /\ UNCHANGED <<regVars, fnVars, ckVars, evVars, inputs, qcfg, pos, sent, written, outfile, loc>>

(***************************************************************************)
(* SpecCheckRun: the check stage runs over up to MaxInputs examples as the  *)
(* query stage writes them, with up to MaxChecks checks each, and its       *)
(* output file is read back.                                                *)
(***************************************************************************)
StageChecks ==
    {MkDict({<<"func", f>>, <<"metrics", m>>, <<"result", r>>, <<"query", q>>}) :
        f \in {Name("affirmative")}, m \in {List(<<"m">>)}, r \in ResultInputs,
        q \in {Absent, Str(<<"q">>)}}
    \cup {MkDict({<<"func", Name("extract_score")>>, <<"metrics", List(<<"m">>)>>}),
          MkDict({<<"metrics", List(<<"m">>)>>})}

StageExamples ==
    {MkDict({<<"qid", Name("q")>>, <<"query", Str(<<"a">>)>>, <<"response", Str(W_yes)>>,
             <<"error", e>>, <<"checks", cs>>}) :
        e \in {Absent, Str(<<"x">>)},
        cs \in {Absent} \cup {List(l) : l \in SeqsUpTo(StageChecks, MaxChecks)}}

InitCheckRun ==
    /\ CHECKS = LoadedCHECKS
    /\ regpc = NRegs
    /\ response = <<>>
    /\ cur = NoCall
    /\ log = <<>>
    /\ config \in [all : BOOLEAN, dry_run : BOOLEAN, prompts_dict : {{Name("p1")}},
                   output : AcceptedOutputs]
    /\ chk = NoRun
    /\ EvalIdle
    /\ inputs \in SeqsUpTo(StageExamples, MaxInputs)
    /\ qcfg = NoQueryConfig
    /\ pos = [Idle EXCEPT !.pc = "start"]
    /\ sent = <<>>
    /\ written = <<>>
    /\ outfile = <<>>
    /\ loc = NoLocals
    /\ data = NotRead

NextCheckRun == CheckOpen \/ CheckExample \/ CheckClose \/ ReadChecked

SpecCheckRun == InitCheckRun /\ [][NextCheckRun]_vars

\* the examples the stage is to write: those with checks and without an error
ToCheck(i) == ~NoChecks(inputs[i]) /\ ~Truthy(Get(inputs[i], "error", None))

RECURSIVE ToCheckFrom(_)
ToCheckFrom(i) ==
    IF i > Len(inputs) THEN <<>>
    ELSE (IF ToCheck(i) THEN <<i>> ELSE <<>>) \o ToCheckFrom(i + 1)

\* the k-th example written is example i with nothing but its checks changed
\* and as many checks as before
WrittenExample(k, i) ==
    /\ DOMAIN written[k] = DOMAIN inputs[i]
    /\ \A key \in DOMAIN inputs[i] \ {"checks"} : written[k][key] = inputs[i][key]
    /\ Len(written[k]["checks"].v) = Len(inputs[i]["checks"].v)

CheckRunEnded == pos.pc \in {"done", "crashed"}

\* C19: when the check stage has ended, the examples written are exactly the
\* examples that have checks and no error, each once, in input order and
\* with its other fields unchanged, and their number is n_outputs.
C19_WrittenOnceInOrder ==
    CheckRunEnded =>
        /\ Len(written) = Len(ToCheckFrom(1))
        /\ \A k \in 1..Len(written) : WrittenExample(k, ToCheckFrom(1)[k])
        /\ loc.n_outputs = Len(written)

\* what does hold: at any moment the examples written are the first of the
\* examples that have checks and no error, in input order and with their
\* other fields unchanged, n_outputs counts them, and a run that reaches its
\* end has written them all
WrittenPrefixInOrder ==
    /\ Len(written) <= Len(ToCheckFrom(1))
    /\ \A k \in 1..Len(written) : WrittenExample(k, ToCheckFrom(1)[k])
    /\ loc.n_outputs = Len(written)
    /\ pos.pc = "done" => Len(written) = Len(ToCheckFrom(1))

\* the check stage's files: .jsonl and .hjson files and .json files of at
\* most one example are read back as the list written
CheckedReadBackButJsonArrays ==
    (data # NotRead /\ (config.output # ".json" \/ Len(written) <= 1)) => data = Read(written)

====
